---- MODULE Spec2Model ----
(***************************************************************************)
(* SGOOP (sgoop_MD.ipynb): projection and binning of a trajectory, the     *)
(* maximum-caliber prefactor, the rate matrix, its spectrum, the spectral  *)
(* gap, and the process-wide run log.                                      *)
(*                                                                         *)
(* Numbers.  A float is a record: Fin(v) is the finite value v / SCALE     *)
(* (fixed point, results truncated toward zero), PInf / NInf / NaN are the *)
(* IEEE special values numpy produces instead of raising.  Bin indices and *)
(* matrix indices are 0-based as in the source; histograms and matrices    *)
(* are functions over 0 .. n-1, the binned trajectory is a sequence.       *)
(***************************************************************************)
EXTENDS Integers, Sequences, FiniteSets, TLC

VARIABLES
  data_array,   \* the loaded trajectory: a sequence of frames <<x, y>>
  build,        \* which float -> int cast the numpy build performs on NaN/Inf
  rc_bin,       \* global rc_bin
  wells,        \* global wells
  d,            \* global d
  binned,       \* global binned (<<>> while the name is still unbound)
  SG, RC, P, SEE, SEV, SEVE,   \* the run log
  call          \* the last call made: its arguments, what it read, its outcome

vars == <<data_array, build, rc_bin, wells, d, binned, SG, RC, P, SEE, SEV, SEVE, call>>

(***************************************************************************)
(* Bounds of the model.                                                    *)
(***************************************************************************)
MaxBins == 3      \* rc_bin ranges over 1 .. MaxBins
MaxWells == 2     \* wells ranges over 1 .. MaxWells
MaxD == 2         \* d ranges over 1 .. MaxD
MaxLog == 1       \* scoring calls are made while the log holds fewer entries
MaxFrames == 3    \* frames of the trajectories enumerated for the pure functions

(***************************************************************************)
(* Floating point.                                                         *)
(***************************************************************************)
SCALE == 100
ENum == 2718
EDen == 1000
IntMin == -1000000
IntMax == 1000000

Fin(v) == [k |-> "fin", v |-> v]
PInf == [k |-> "inf", v |-> 1]
NInf == [k |-> "inf", v |-> -1]
NaN == [k |-> "nan", v |-> 0]

IsFin(x) == x.k = "fin"
Abs(n) == IF n < 0 THEN -n ELSE n
Sgn(n) == IF n < 0 THEN -1 ELSE IF n > 0 THEN 1 ELSE 0
TDiv(a, b) == Sgn(a) * Sgn(b) * (Abs(a) \div Abs(b))
SInf(s) == IF s > 0 THEN PInf ELSE NInf

FNeg(x) == IF x.k = "nan" THEN NaN ELSE [k |-> x.k, v |-> -x.v]

FAdd(x, y) ==
  IF x.k = "nan" \/ y.k = "nan" THEN NaN
  ELSE IF x.k = "inf" /\ y.k = "inf" THEN (IF x.v = y.v THEN x ELSE NaN)
  ELSE IF x.k = "inf" THEN x
  ELSE IF y.k = "inf" THEN y
  ELSE Fin(x.v + y.v)

FSub(x, y) == FAdd(x, FNeg(y))

FMul(x, y) ==
  IF x.k = "nan" \/ y.k = "nan" THEN NaN
  ELSE IF x.k = "inf" \/ y.k = "inf"
       THEN (IF x.v = 0 \/ y.v = 0 THEN NaN ELSE SInf(Sgn(x.v) * Sgn(y.v)))
  ELSE Fin(TDiv(x.v * y.v, SCALE))

\* numpy scalar / array division: x / 0 is inf or nan with a warning, never an exception
FDiv(x, y) ==
  IF x.k = "nan" \/ y.k = "nan" THEN NaN
  ELSE IF x.k = "inf" THEN (IF y.k = "inf" THEN NaN
                            ELSE SInf(x.v * (IF y.v < 0 THEN -1 ELSE 1)))
  ELSE IF y.k = "inf" THEN Fin(0)
  ELSE IF y.v = 0 THEN (IF x.v = 0 THEN NaN ELSE SInf(x.v))
  ELSE Fin(TDiv(x.v * SCALE, y.v))

RECURSIVE ISqrtIn(_, _, _)
ISqrtIn(n, lo, hi) ==
  IF lo >= hi THEN lo
  ELSE LET mid == (lo + hi + 1) \div 2
       IN IF mid * mid <= n THEN ISqrtIn(n, mid, hi) ELSE ISqrtIn(n, lo, mid - 1)

ISqrt(n) == ISqrtIn(n, 0, IF n < 40000 THEN n ELSE 40000)

FSqrt(x) ==
  IF x.k = "nan" THEN NaN
  ELSE IF x.k = "inf" THEN (IF x.v > 0 THEN PInf ELSE NaN)
  ELSE IF x.v < 0 THEN NaN
  ELSE Fin(ISqrt(x.v * SCALE))

FLess(x, y) ==
  IF x.k = "nan" \/ y.k = "nan" THEN FALSE
  ELSE IF x.k = "inf" THEN x.v < 0 /\ ~(y.k = "inf" /\ y.v < 0)
  ELSE IF y.k = "inf" THEN y.v > 0
  ELSE x.v < y.v

\* sum of f[0] .. f[n-1]
RECURSIVE FSum(_, _)
FSum(f, n) == IF n = 0 THEN Fin(0) ELSE FAdd(FSum(f, n - 1), f[n - 1])

\* np.min / np.max of a sequence of floats: NaN if any element is NaN
RECURSIVE np_min(_)
np_min(s) ==
  IF Len(s) = 1 THEN s[1]
  ELSE LET m == np_min(Tail(s))
       IN IF s[1].k = "nan" \/ m.k = "nan" THEN NaN
          ELSE IF FLess(s[1], m) THEN s[1] ELSE m

RECURSIVE np_max(_)
np_max(s) ==
  IF Len(s) = 1 THEN s[1]
  ELSE LET m == np_max(Tail(s))
       IN IF s[1].k = "nan" \/ m.k = "nan" THEN NaN
          ELSE IF FLess(m, s[1]) THEN s[1] ELSE m

\* ndarray.astype(int): truncation toward zero; the cast of NaN or Inf is
\* undefined and yields what the build's conversion instruction yields
astype_int(x) ==
  IF x.k = "fin" THEN TDiv(x.v, SCALE)
  ELSE IF build = "sse" THEN IntMin
  ELSE IF x.k = "nan" THEN 0
  ELSE IF x.v > 0 THEN IntMax ELSE IntMin

\* Python/numpy indexing of an array of length n: a negative index counts from
\* the end; -1 stands for IndexError
PyIndex(i, n) ==
  IF 0 <= i /\ i < n THEN i
  ELSE IF -n <= i /\ i < 0 THEN i + n
  ELSE -1

\* np.exp(-x)
RECURSIVE ExpNegInt(_, _)
ExpNegInt(q, v) ==
  IF q = 0 THEN v
  ELSE IF q > 0 THEN ExpNegInt(q - 1, (v * EDen) \div ENum)
  ELSE ExpNegInt(q + 1, (v * ENum) \div EDen)

ExpNegFrac(t) ==
  LET t2 == (t * t) \div SCALE
      t3 == (t2 * t) \div SCALE
      t4 == (t3 * t) \div SCALE
  IN SCALE - t + (t2 \div 2) - (t3 \div 6) + (t4 \div 24)

np_exp_neg(v) ==
  LET q == v \div SCALE
      r == v - q * SCALE
  IN IF q > 20 THEN 0 ELSE ExpNegInt(q, ExpNegFrac(r))

(***************************************************************************)
(* The functions of the notebook.                                          *)
(***************************************************************************)
Bins == 0 .. (rc_bin - 1)

normalize_rc(rc) ==
  LET squares == rc[1] * rc[1] + rc[2] * rc[2]
      denom == FSqrt(Fin(squares * SCALE))
  IN [k \in 1 .. 2 |-> FDiv(Fin(rc[k] * SCALE), denom)]

\* an rc given as integer weights, as the float vector numpy makes of it
np_array(rc) == [k \in 1 .. 2 |-> Fin(rc[k] * SCALE)]

\* np.dot(v, rc) for one frame v (integer-valued coordinates)
np_dot(v, rc) ==
  FAdd(FMul(Fin(v[1] * SCALE), rc[1]), FMul(Fin(v[2] * SCALE), rc[2]))

projection(rc) == [i \in 1 .. Len(data_array) |-> np_dot(data_array[i], rc)]

\* (proj - rc_min) / (rc_max - rc_min) * (nb - 1), then astype(int)
bin_of(proj, rc_min, rc_max, nb) ==
  [i \in 1 .. Len(proj) |->
     astype_int(FMul(FDiv(FSub(proj[i], rc_min), FSub(rc_max, rc_min)),
                     Fin((nb - 1) * SCALE)))]

index_error(b, nb) == \E i \in 1 .. Len(b) : PyIndex(b[i], nb) = -1

\* prob[b[i]] += w[i] over the frames i = 1 .. n, starting from np.zeros(nb)
RECURSIVE accumulate(_, _, _, _)
accumulate(b, w, nb, n) ==
  IF n = 0 THEN [k \in 0 .. (nb - 1) |-> Fin(0)]
  ELSE LET prev == accumulate(b, w, nb, n - 1)
           at == PyIndex(b[n], nb)
       IN [prev EXCEPT ![at] = FAdd(@, w[n])]

\* prob / prob.sum()
normalized(prob, nb) ==
  CHOOSE r \in
    { [k \in 0 .. (nb - 1) |-> FDiv(pr[k], total)] :
        pr \in {prob}, total \in {FSum(prob, nb)} } : TRUE

\* the loop over binned and the normalisation, for the binning b
md_prob_hist(b) ==
  IF index_error(b, rc_bin)
  THEN [binned |-> b, raised |-> TRUE, prob |-> <<>>]
  ELSE [binned |-> b, raised |-> FALSE,
        prob |-> normalized(accumulate(b, [i \in 1 .. Len(b) |-> Fin(SCALE)],
                                       rc_bin, Len(b)), rc_bin)]

md_prob(rc) ==
  CHOOSE r \in
    { md_prob_hist(bin_of(projection(rc), rc_min, rc_max, rc_bin)) :
        rc_min \in {np_min(projection(rc))}, rc_max \in {np_max(projection(rc))} } :
    TRUE

\* binned and rc_bin after set_bins(rc, bins, rc_min, rc_max)
set_bins_binned(rc, bins, rc_min, rc_max) ==
  bin_of(projection(np_array(rc)),
         Fin(rc_min * SCALE), Fin(rc_max * SCALE), bins)

RECURSIVE SeqMin(_)
SeqMin(s) == IF Len(s) = 1 THEN s[1]
             ELSE LET m == SeqMin(Tail(s)) IN IF s[1] < m THEN s[1] ELSE m
RECURSIVE SeqMax(_)
SeqMax(s) == IF Len(s) = 1 THEN s[1]
             ELSE LET m == SeqMax(Tail(s)) IN IF s[1] > m THEN s[1] ELSE m

\* <N>: the loop over binned with J = 0 before the first frame
RECURSIVE N_count(_, _, _)
N_count(b, J, n) ==
  IF n > Len(b) THEN 0
  ELSE (IF Abs(b[n] - J) <= d THEN 1 ELSE 0) + N_count(b, b[n], n + 1)

mu_N(b) == N_count(b, 0, 1)

\* the denominator: every ordered pair (j, i), i # j, |i - j| <= d
RECURSIVE mu_D_upto(_, _)
mu_D_upto(p, m) ==
  IF m = 0 THEN Fin(0)
  ELSE LET j == (m - 1) \div rc_bin
           i == (m - 1) % rc_bin
       IN IF Abs(i - j) <= d /\ i # j
          THEN FAdd(mu_D_upto(p, m - 1), FSqrt(FMul(p[j], p[i])))
          ELSE mu_D_upto(p, m - 1)

\* mutant: every unordered pair once
RECURSIVE mu_D_unordered_upto(_, _)
mu_D_unordered_upto(p, m) ==
  IF m = 0 THEN Fin(0)
  ELSE LET j == (m - 1) \div rc_bin
           i == (m - 1) % rc_bin
       IN IF Abs(i - j) <= d /\ j < i
          THEN FAdd(mu_D_unordered_upto(p, m - 1), FSqrt(FMul(p[j], p[i])))
          ELSE mu_D_unordered_upto(p, m - 1)

mu_D_unordered(p) == mu_D_unordered_upto(p, rc_bin * rc_bin)

mu_D(p) == mu_D_upto(p, rc_bin * rc_bin)

mu_factor(b, p) ==
  LET N_mean == FDiv(Fin(mu_N(b) * SCALE), Fin(Len(b) * SCALE))
  IN FDiv(N_mean, mu_D(p))

\* the matrix before the diagonal is set
transmat_offdiag(MU, p) ==
  [i \in Bins |-> [j \in Bins |->
     IF p[i] # Fin(0) /\ Abs(i - j) <= d /\ i # j
     THEN FMul(MU, FSqrt(FDiv(p[j], p[i])))
     ELSE Fin(0)]]

\* mutant: the sum along axis 0, that is over column i
transmat_diag_axis0(M, i) == FNeg(FSum([k \in Bins |-> M[k][i]], rc_bin))

\* mutant: the sum without its sign
transmat_diag_unsigned(M, i) == FSum(M[i], rc_bin)

\* S[i,i] = -S.sum(1)[i]: the sum along axis 1, that is over row i
transmat_diag(M, i) == FNeg(FSum(M[i], rc_bin))

transmat_raw(MU, p) ==
  LET M == transmat_offdiag(MU, p)
  IN [i \in Bins |-> [j \in Bins |-> IF i = j THEN transmat_diag(M, i) ELSE M[i][j]]]

\* mutant: the transpose without the sign flip
transmat_unflipped(MU, p) ==
  LET raw == transmat_raw(MU, p)
  IN [i \in Bins |-> [j \in Bins |-> raw[j][i]]]

transmat(MU, p) ==
  LET raw == transmat_raw(MU, p)
  IN [i \in Bins |-> [j \in Bins |-> FNeg(raw[j][i])]]

\* np.linalg.eig refuses a matrix holding Inf or NaN
eig_raises(S) == \E i \in Bins, j \in Bins : ~IsFin(S[i][j])

\* the eigenvalues eig can return, in the order it returns them.  The
\* decomposition is LAPACK's: a 1x1 matrix has its entry as eigenvalue, for
\* larger matrices any vector over EigDomain is allowed.
EigDomain == {0, SCALE}
eig_values(S) ==
  IF rc_bin = 1 THEN {<<S[0][0].v>>} ELSE [1 .. rc_bin -> EigDomain]

\* eigenValues.argsort(): the positions of w in ascending order of value
RECURSIVE argsort_insert(_, _, _)
argsort_insert(w, idx, k) ==
  IF idx = <<>> THEN <<k>>
  ELSE IF w[k] < w[Head(idx)] THEN <<k>> \o idx
  ELSE <<Head(idx)>> \o argsort_insert(w, Tail(idx), k)

RECURSIVE argsort_upto(_, _)
argsort_upto(w, n) ==
  IF n = 0 THEN <<>> ELSE argsort_insert(w, argsort_upto(w, n - 1), n)

argsort(w) == argsort_upto(w, Len(w))

\* eigeneval on a matrix whose eig values are w; the eigenvector matrix is
\* kept as the order of its columns
eigeneval(w) ==
  CHOOSE r \in
    { [vals |-> [a \in 1 .. Len(w) |-> w[idx[a]]],
       exp |-> [a \in 1 .. Len(w) |-> np_exp_neg(w[idx[a]])],
       vecs |-> idx] : idx \in {argsort(w)} } : TRUE

\* x[mask]: the elements of x at the positions where keep holds
RECURSIVE masked(_, _, _)
masked(x, keep, n) ==
  IF n = 0 THEN <<>>
  ELSE IF keep[n] THEN Append(masked(x, keep, n - 1), x[n])
  ELSE masked(x, keep, n - 1)

\* mutant: one more gap than wells is asked for
spectral_strict(see_log, sev_log) ==
  LET see == see_log[Len(see_log)]
      sev == sev_log[Len(sev_log)]
      pos1 == masked(see, [a \in 1 .. Len(see) |-> sev[a] >= 0], Len(see))
      SEE_pos == masked(pos1, [a \in 1 .. Len(pos1) |-> pos1[a] > 0], Len(pos1))
      ngaps == IF Len(SEE_pos) = 0 THEN 0 ELSE Len(SEE_pos) - 1
      gaps == [a \in 1 .. ngaps |-> SEE_pos[a] - SEE_pos[a + 1]]
  IN IF ngaps > wells THEN gaps[wells] ELSE 0

\* spectral() on the logs see_log, sev_log.  -1e-10 lies strictly between
\* -1/SCALE and 0, so "eigenvalue > -1e-10" is "eigenvalue >= 0" here.
spectral(see_log, sev_log) ==
  LET see == see_log[Len(see_log)]
      sev == sev_log[Len(sev_log)]
      pos1 == masked(see, [a \in 1 .. Len(see) |-> sev[a] >= 0], Len(see))
      SEE_pos == masked(pos1, [a \in 1 .. Len(pos1) |-> pos1[a] > 0], Len(pos1))
      ngaps == IF Len(SEE_pos) = 0 THEN 0 ELSE Len(SEE_pos) - 1
      gaps == [a \in 1 .. ngaps |-> SEE_pos[a] - SEE_pos[a + 1]]
  IN IF ngaps >= wells THEN gaps[wells] ELSE 0

\* prob along rc with every frame weighted by 1 / bias_prob[bias_bin]
biased_prob_hist(md, b) ==
  IF md.raised THEN md
  ELSE IF index_error(b, rc_bin)
  THEN [binned |-> b, raised |-> TRUE, prob |-> <<>>]
  ELSE [binned |-> b, raised |-> FALSE,
        prob |-> normalized(
                   accumulate(b,
                              [i \in 1 .. Len(b) |->
                                 FDiv(Fin(SCALE),
                                      md.prob[PyIndex(md.binned[i], rc_bin)])],
                              rc_bin, Len(b)),
                   rc_bin)]

\* mutant: binned is not rebound, the global keeps the binning of old_rc
biased_prob_stale(rc, old_rc) ==
  CHOOSE r \in
    { [biased_prob_hist(md, bin_of(projection(rc), rc_min, rc_max, rc_bin))
         EXCEPT !.binned = md.binned] :
        md \in {md_prob(old_rc)},
        rc_min \in {np_min(projection(rc))}, rc_max \in {np_max(projection(rc))} } :
    TRUE

biased_prob(rc, old_rc) ==
  CHOOSE r \in
    { biased_prob_hist(md, bin_of(projection(rc), rc_min, rc_max, rc_bin)) :
        md \in {md_prob(old_rc)},
        rc_min \in {np_min(projection(rc))}, rc_max \in {np_max(projection(rc))} } :
    TRUE

(***************************************************************************)
(* Inputs.                                                                 *)
(***************************************************************************)
TrajA == << <<0, 0>>, <<2, 0>>, <<1, 0>>, <<2, 0>> >>
TrajB == << <<1, 0>>, <<0, 2>>, <<2, 2>>, <<0, 2>> >>
Trajectories == {TrajA, TrajB}
RCSet == { <<1, 0>>, <<0, 1>>, <<1, 1>> }
ExtMin == {0, 1}
ExtMax == {2}
PVals == {Fin(0), Fin(25), Fin(50), Fin(100)}
\* histograms handed in from outside: n bins, summing to 1
ExtHist(n) == {p \in [0 .. (n - 1) -> PVals] : FSum(p, n) = Fin(SCALE)}

NoCall ==
  [op |-> "none", outcome |-> "none", rc |-> <<>>, rc2 |-> <<>>, rcn |-> <<>>,
   reached |-> FALSE,
   read |-> <<>>, p |-> <<>>, N |-> 0, D |-> Fin(0), MU |-> Fin(0), raw |-> <<>>,
   S |-> <<>>, ret |-> 0, before |-> <<0, 0, 0, 0, 0, 0>>]

LogLens == <<Len(RC), Len(P), Len(SEV), Len(SEE), Len(SEVE), Len(SG)>>

(***************************************************************************)
(* The operations.                                                         *)
(***************************************************************************)
Init ==
  /\ data_array \in Trajectories
  /\ build \in {"sse", "neon"}
  /\ rc_bin \in 1 .. MaxBins
  /\ wells = 2
  /\ d = 1
  /\ binned = <<>>
  /\ SG = <<>> /\ RC = <<>> /\ P = <<>> /\ SEE = <<>> /\ SEV = <<>> /\ SEVE = <<>>
  /\ call = NoCall

rei ==
  /\ SG' = <<>> /\ RC' = <<>> /\ P' = <<>> /\ SEE' = <<>> /\ SEV' = <<>> /\ SEVE' = <<>>
  /\ call' = [NoCall EXCEPT !.op = "rei", !.outcome = "ok", !.before = LogLens]
  /\ UNCHANGED <<data_array, build, rc_bin, wells, d, binned>>

\* the body of sgoop(rc, p), reading the buffer b that the global binned
\* holds when mu_factor is called; c is the call so far
sgoop_body(b, p, c) ==
  IF b = <<>>
  THEN /\ call' = [c EXCEPT !.outcome = "NameError"]
       /\ UNCHANGED <<SEV, SEE, SEVE, SG>>
  ELSE \E MU \in {mu_factor(b, p)} :
       \E S \in {transmat(MU, p)} :
       \E c1 \in {[c EXCEPT !.reached = TRUE, !.read = b, !.p = p, !.N = mu_N(b),
                            !.D = mu_D(p), !.MU = MU,
                            !.raw = transmat_raw(MU, p), !.S = S]} :
         IF eig_raises(S)
         THEN /\ call' = [c1 EXCEPT !.outcome = "LinAlgError"]
              /\ UNCHANGED <<SEV, SEE, SEVE, SG>>
         ELSE \E w \in eig_values(S) :
              \E e \in {eigeneval(w)} :
              \E sg \in {spectral(Append(SEE, e.exp), Append(SEV, e.vals))} :
                /\ SEV' = Append(SEV, e.vals)
                /\ SEE' = Append(SEE, e.exp)
                /\ SEVE' = Append(SEVE, e.vecs)
                /\ SG' = Append(SG, sg)
                /\ call' = [c1 EXCEPT !.outcome = "ok", !.ret = sg]

LogRoom == \A n \in {Len(RC), Len(P), Len(SEV), Len(SG)} : n < MaxLog

sgoop(rc, p) ==
  /\ LogRoom
  /\ sgoop_body(binned, p,
                [NoCall EXCEPT !.op = "sgoop", !.before = LogLens])
  /\ UNCHANGED <<data_array, build, rc_bin, wells, d, binned, RC, P>>

rc_eval(rc) ==
  /\ LogRoom
  /\ \E rcn \in {normalize_rc(rc)} :
     \E md \in {md_prob(rcn)} :
     \E c \in {[NoCall EXCEPT !.op = "rc_eval", !.rc = rc, !.rcn = rcn,
                              !.before = LogLens]} :
        /\ RC' = Append(RC, rcn)
        /\ binned' = md.binned
        /\ IF md.raised
           THEN /\ call' = [c EXCEPT !.outcome = "IndexError"]
                /\ UNCHANGED <<P, SEV, SEE, SEVE, SG>>
           ELSE /\ P' = Append(P, md.prob)
                /\ sgoop_body(md.binned, md.prob, c)
  /\ UNCHANGED <<data_array, build, rc_bin, wells, d>>

biased_eval(rc, bias_rc) ==
  /\ LogRoom
  /\ \E rcn \in {normalize_rc(rc)} :
     \E bp \in {biased_prob(rcn, np_array(bias_rc))} :
     \E c \in {[NoCall EXCEPT !.op = "biased_eval", !.rc = rc, !.rc2 = bias_rc,
                              !.rcn = rcn, !.before = LogLens]} :
        /\ RC' = Append(RC, rcn)
        /\ binned' = bp.binned
        /\ IF bp.raised
           THEN /\ call' = [c EXCEPT !.outcome = "IndexError"]
                /\ UNCHANGED <<P, SEV, SEE, SEVE, SG>>
           ELSE /\ P' = Append(P, bp.prob)
                /\ sgoop_body(bp.binned, bp.prob, c)
  /\ UNCHANGED <<data_array, build, rc_bin, wells, d>>

set_bins(rc, bins, rc_min, rc_max) ==
  /\ rc_bin' = bins
  /\ binned' = set_bins_binned(rc, bins, rc_min, rc_max)
  /\ call' = [NoCall EXCEPT !.op = "set_bins", !.outcome = "ok",
                            !.before = LogLens]
  /\ UNCHANGED <<data_array, build, wells, d, SG, RC, P, SEE, SEV, SEVE>>

\* the trimming of clean_whitespace(p); the slice of p it returns is not kept
clean_whitespace ==
  /\ binned # <<>>
  /\ LET bmin == SeqMin(binned)
         bmax == SeqMax(binned)
     IN /\ bmax - bmin + 1 <= MaxBins
        /\ rc_bin' = bmax - bmin + 1
        /\ binned' = [i \in 1 .. Len(binned) |-> binned[i] - bmin]
  /\ call' = [NoCall EXCEPT !.op = "clean_whitespace", !.outcome = "ok",
                            !.before = LogLens]
  /\ UNCHANGED <<data_array, build, wells, d, SG, RC, P, SEE, SEV, SEVE>>

Next ==
  \/ rei
  \/ \E rc \in RCSet : rc_eval(rc)
  \/ \E rc \in RCSet, bias_rc \in RCSet : biased_eval(rc, bias_rc)
  \/ \E p \in ExtHist(rc_bin) : sgoop(<<1, 0>>, p)   \* sgoop never reads rc
  \/ \E rc \in RCSet, bins \in 1 .. MaxBins, rc_min \in ExtMin, rc_max \in ExtMax :
       set_bins(rc, bins, rc_min, rc_max)
  \/ clean_whitespace

Spec == Init /\ [][Next]_vars

(***************************************************************************)
(* The pure functions applied to enumerated inputs: mu_factor to a binned  *)
(* sequence and a histogram, transmat to a prefactor and a histogram,      *)
(* eigeneval and spectral to the eigenvalues of one decomposition.         *)
(***************************************************************************)
ExampleBinned == <<0, 1, 0, 1, 0, 1>>
BinnedSet(n) ==
  UNION {[1 .. k -> 0 .. (n - 1)] : k \in 1 .. MaxFrames}
    \cup (IF n = 2 THEN {ExampleBinned} ELSE {})
MUSet == {Fin(0), Fin(SCALE \div 2), Fin(SCALE), Fin(2 * SCALE)}
EigInputs == {-1, 0, SCALE, 6 * SCALE}
\* an earlier log entry: the spectrum of an all-zero matrix
Earlier == eigeneval([a \in 1 .. rc_bin |-> 0])

InitFn ==
  /\ data_array = TrajA
  /\ build = "sse"
  /\ rc_bin \in 1 .. MaxBins
  /\ SG = <<>> /\ RC = <<>> /\ P = <<>> /\ SEVE = <<>>
  /\ \/ /\ call = [NoCall EXCEPT !.op = "mu_factor"]
        /\ d \in 1 .. MaxD
        /\ wells = 2
        /\ binned \in BinnedSet(rc_bin)
        /\ SEV = <<>> /\ SEE = <<>>
     \/ /\ call = [NoCall EXCEPT !.op = "transmat"]
        /\ d \in 1 .. MaxD
        /\ wells = 2
        /\ binned = <<>>
        /\ SEV = <<>> /\ SEE = <<>>
     \/ /\ call = [NoCall EXCEPT !.op = "spectral"]
        /\ d = 1
        /\ wells \in 1 .. MaxWells
        /\ binned = <<>>
        /\ \/ SEV = <<>> /\ SEE = <<>>
           \/ SEV = <<Earlier.vals>> /\ SEE = <<Earlier.exp>>

Fn_mu_factor(p) ==
  /\ call.op = "mu_factor" /\ call.outcome = "none"
  /\ call' = [call EXCEPT !.outcome = "ok", !.reached = TRUE, !.read = binned,
                          !.p = p, !.N = mu_N(binned), !.D = mu_D(p),
                          !.MU = mu_factor(binned, p)]
  /\ UNCHANGED <<data_array, build, rc_bin, wells, d, binned, SG, RC, P, SEE, SEV, SEVE>>

Fn_transmat(MU, p) ==
  /\ call.op = "transmat" /\ call.outcome = "none"
  /\ call' = [call EXCEPT !.outcome = "ok", !.p = p, !.MU = MU,
                          !.raw = transmat_raw(MU, p), !.S = transmat(MU, p)]
  /\ UNCHANGED <<data_array, build, rc_bin, wells, d, binned, SG, RC, P, SEE, SEV, SEVE>>

\* lines 266-272 of sgoop on the eigenvalues w that eig returned
Fn_spectral(w) ==
  /\ call.op = "spectral" /\ call.outcome = "none"
  /\ \E e \in {eigeneval(w)} :
     \E sg \in {spectral(Append(SEE, e.exp), Append(SEV, e.vals))} :
        /\ SEV' = Append(SEV, e.vals)
        /\ SEE' = Append(SEE, e.exp)
        /\ SEVE' = Append(SEVE, e.vecs)
        /\ SG' = Append(SG, sg)
        /\ call' = [call EXCEPT !.outcome = "ok", !.ret = sg]
  /\ UNCHANGED <<data_array, build, rc_bin, wells, d, binned, RC, P>>

NextFn ==
  \/ call.outcome = "none" /\ call.op = "mu_factor"
       /\ \E p \in ExtHist(rc_bin) : Fn_mu_factor(p)
  \/ call.outcome = "none" /\ call.op = "transmat"
       /\ \E p \in ExtHist(rc_bin) : \E MU \in MUSet : Fn_transmat(MU, p)
  \/ call.outcome = "none" /\ call.op = "spectral"
       /\ \E w \in [1 .. rc_bin -> EigInputs] : Fn_spectral(w)

SpecFn == InitFn /\ [][NextFn]_vars

(***************************************************************************)
(* The claims.                                                             *)
(***************************************************************************)
Scoring == {"rc_eval", "biased_eval", "sgoop"}
Applied(op) == call.op = op /\ call.outcome = "ok"
ColSum(M, j) == FSum([i \in Bins |-> M[i][j]], rc_bin)
RowSum(M, i) == FSum(M[i], rc_bin)
OffRowSum(M, i) == FSum([k \in Bins |-> IF k = i THEN Fin(0) ELSE M[i][k]], rc_bin)
OffColSum(M, i) == FSum([k \in Bins |-> IF k = i THEN Fin(0) ELSE M[k][i]], rc_bin)

\* C1: after rei() every run-log sequence is empty, a scoring call that
\* returns (here: one whose prefactor denominator is positive) has appended
\* exactly one element to each of RC, P, SEV, SEE, SEVE, SG, and all six then
\* have the same length.
C1_RunLogAligned ==
  /\ call.op = "rei" => LogLens = <<0, 0, 0, 0, 0, 0>>
  /\ (call.op \in Scoring /\ call.outcome = "ok" /\ call.D.v > 0) =>
       /\ \A k \in 1 .. 6 : LogLens[k] = call.before[k] + 1
       /\ \A k \in 1 .. 6 : LogLens[k] = LogLens[1]

\* C2: every column of the matrix S returned by transmat(MU, p) sums to 0.
C2_ColumnsSumToZero ==
  Applied("transmat") => \A j \in Bins : ColSum(call.S, j) = Fin(0)

C2_Witness ==
  /\ Applied("transmat") /\ rc_bin >= 3 /\ call.MU.v > 0
  /\ \E i, j \in Bins : i # j /\ call.S[i][j].v # 0 /\ call.S[i][j] # call.S[j][i]

InHop(p, i, j) == Abs(i - j) <= d /\ p[i].v > 0 /\ p[j].v > 0

\* C3 as stated: with MU >= 0 an off-diagonal S[i,j] is non-negative when
\* |i-j| <= d and p[i] > 0 and p[j] > 0, and exactly zero otherwise.
C3_OffDiagNonNegative ==
  Applied("transmat") =>
    \A i, j \in Bins : i # j =>
      IF InHop(call.p, i, j) THEN IsFin(call.S[i][j]) /\ call.S[i][j].v >= 0
      ELSE call.S[i][j] = Fin(0)

\* C3 as amended: with finite MU >= 0 an off-diagonal S[i,j] is non-positive
\* when |i-j| <= d and p[i] > 0 and p[j] > 0, and exactly zero otherwise.
C3_OffDiagNonPositive ==
  Applied("transmat") =>
    \A i, j \in Bins : i # j =>
      IF InHop(call.p, i, j) THEN IsFin(call.S[i][j]) /\ call.S[i][j].v <= 0
      ELSE call.S[i][j] = Fin(0)

C3_Witness ==
  /\ Applied("transmat") /\ call.MU.v > 0
  /\ \E i, j \in Bins : i # j /\ InHop(call.p, i, j) /\ call.S[i][j].v < 0
  /\ \E i, j \in Bins : i # j /\ Abs(i - j) <= d /\ call.p[i].v = 0 /\ call.p[j].v > 0
  /\ \E i, j \in Bins : Abs(i - j) > d

\* C4: after rc_eval, biased_eval (md_prob, biased_prob) or set_bins has
\* written binned and returned, binned holds one bin index per frame, each in
\* 0 .. rc_bin - 1.
C4_BinnedInRange ==
  (call.op \in {"rc_eval", "biased_eval", "set_bins"} /\ call.outcome = "ok") =>
    /\ Len(binned) = Len(data_array)
    /\ \A i \in 1 .. Len(binned) : binned[i] \in 0 .. (rc_bin - 1)

\* C5: spectral() keeps, in the ascending order of the last logged
\* eigenvalues, the weights whose eigenvalue is > -1e-10 and whose value is
\* > 0, and returns the difference of the wells-th and the (wells+1)-th kept
\* weight when at least wells gaps exist, and 0 otherwise; it returns 0
\* whenever fewer than wells weights are kept.
LastSEE == SEE[Len(SEE)]
LastSEV == SEV[Len(SEV)]
Kept == {a \in 1 .. Len(LastSEE) : LastSEV[a] >= 0 /\ LastSEE[a] > 0}
KthKept(k) == CHOOSE a \in Kept : Cardinality({c \in Kept : c < a}) = k - 1

C5_SpectralGap ==
  Applied("spectral") =>
    /\ \A a, c \in 1 .. Len(LastSEV) : a < c => LastSEV[a] <= LastSEV[c]
    /\ call.ret = IF Cardinality(Kept) - 1 >= wells
                  THEN LastSEE[KthKept(wells)] - LastSEE[KthKept(wells + 1)]
                  ELSE 0
    /\ Cardinality(Kept) < wells => call.ret = 0

C5_Witness ==
  /\ Applied("spectral") /\ Len(SEV) = 2
  /\ Cardinality(Kept) < Len(LastSEE)
  /\ Cardinality(Kept) = wells + 1
  /\ call.ret > 0

\* C6: the worked example, binned = [0,1,0,1,0,1], p = [0.5, 0.5], d = 1.
C6_Case ==
  /\ Applied("mu_factor") /\ rc_bin = 2 /\ d = 1 /\ binned = ExampleBinned
  /\ call.p = [k \in 0 .. 1 |-> Fin(SCALE \div 2)]
C6_N_mean == FDiv(Fin(call.N * SCALE), Fin(Len(binned) * SCALE))

\* C6 as stated: N_mean = 1.0, D = 0.5, MU = 2.0, S[0,1] = S[1,0] = 2.0 and
\* both diagonal entries -2.0.
C6_ExampleAsStated ==
  C6_Case =>
    /\ C6_N_mean = Fin(SCALE)
    /\ call.D = Fin(SCALE \div 2)
    /\ call.MU = Fin(2 * SCALE)
    /\ transmat(call.MU, call.p) =
         [i \in 0 .. 1 |-> [j \in 0 .. 1 |->
            IF i = j THEN Fin(-2 * SCALE) ELSE Fin(2 * SCALE)]]

\* C6 as amended: N_mean = 1.0, D = 1.0, MU = 1.0, S[0,1] = S[1,0] = -1.0 and
\* both diagonal entries 1.0.
C6_ExampleAsComputed ==
  C6_Case =>
    /\ C6_N_mean = Fin(SCALE)
    /\ call.D = Fin(SCALE)
    /\ call.MU = Fin(SCALE)
    /\ transmat(call.MU, call.p) =
         [i \in 0 .. 1 |-> [j \in 0 .. 1 |->
            IF i = j THEN Fin(SCALE) ELSE Fin(-SCALE)]]

C6_Witness == C6_Case

\* C7: when the denominator D of the prefactor is 0 the scoring call fails
\* with a division-by-zero error: it returns no score and appends none to SG.
C7_ZeroDenominatorRaises ==
  (call.op \in Scoring /\ call.reached /\ call.D = Fin(0)) =>
    /\ call.outcome = "ZeroDivisionError"
    /\ Len(SG) = call.before[6]

\* C8: the first frame adds nothing to the neighbour count: the count is the
\* number of positions t >= 1 with |bin[t] - bin[t-1]| <= d, at most
\* len(binned) - 1.
C8_FirstFrameNotCounted ==
  Applied("mu_factor") =>
    /\ call.N = Cardinality({t \in 2 .. Len(binned) :
                               Abs(binned[t] - binned[t - 1]) <= d})
    /\ call.N <= Len(binned) - 1

\* C9 as stated: raw[i,i] is the negated sum of column i of the off-diagonal
\* entries, and every row of S = -transpose(raw) sums to 0.
C9_RowsSumToZero ==
  Applied("transmat") =>
    \A i \in Bins :
      /\ call.raw[i][i] = FNeg(OffColSum(call.raw, i))
      /\ RowSum(call.S, i) = Fin(0)

\* C9 as amended: raw[i,i] is the negated sum of row i of the off-diagonal
\* entries, so that S[i,i] balances the rest of column i of S.
C9_DiagonalFromRowSum ==
  Applied("transmat") =>
    \A i \in Bins :
      /\ call.raw[i][i] = FNeg(OffRowSum(call.raw, i))
      /\ call.S[i][i] = FNeg(OffColSum(call.S, i))

C9_Witness ==
  /\ Applied("transmat") /\ call.MU.v > 0
  /\ \E i \in Bins : /\ OffRowSum(call.raw, i) # OffColSum(call.raw, i)
                     /\ RowSum(call.S, i) # Fin(0)

\* C10: when mu_factor reads binned inside rc_eval or biased_eval, binned is
\* the binning of the trajectory projected onto the call's own normalized rc.
OwnBinning(rc) ==
  bin_of(projection(rc), np_min(projection(rc)), np_max(projection(rc)), rc_bin)

C10_FreshBuffer ==
  (call.op \in {"rc_eval", "biased_eval"} /\ call.reached) =>
    call.read = OwnBinning(call.rcn)

C10_Witness ==
  /\ call.op = "biased_eval" /\ call.reached /\ call.outcome = "ok"
  /\ OwnBinning(np_array(call.rc2)) # call.read

====
